---- MODULE Spec2Model ----
(***************************************************************************)
(* State-machine model of the SmartWealthSimple web frontend.              *)
(*                                                                         *)
(*   - SectorCompanySelector (web/src/components/SectorCompanySelector.tsx)*)
(*     sector selection, the streamed company request, the fallback        *)
(*     request and the table sorting;                                      *)
(*   - SmartWealthNeonWizard (the light-theme wizard): step validation,    *)
(*     navigation and the /api/recommend submission.                       *)
(*                                                                         *)
(* A React event handler, and every stretch of an async function between   *)
(* two awaits, runs to completion on the browser's single thread: each is  *)
(* one action, and its state setters are applied in the order called.      *)
(* An async function reads the props/state of the render that created it   *)
(* (its closure); the model stores what a request captured when it was     *)
(* started.                                                                *)
(***************************************************************************)
EXTENDS Integers, Sequences, FiniteSets, TLC

VARIABLES
    \* ---- SectorCompanySelector: React state (useState) ----
    sectors,          \* SectorData[] (names), loaded by fetchSectors
    selectedSectors,  \* string[]
    companies,        \* Company[] (ids into Catalogue)
    loading,          \* boolean
    error,            \* string | null
    currentStep,      \* 'sectors' | 'companies'
    sortField,        \* SortField
    sortDirection,    \* SortDirection
    \* ---- SectorCompanySelector: asynchronous activity ----
    sectorsFetch,     \* the mount effect's fetchSectors call: "pending" | "done"
    reqs,             \* the fetchCompanies calls made so far, one record each
    nreq,             \* how many fetchCompanies calls were started
    written,          \* how many lines the server wrote into streamed bodies
    \* ---- SmartWealthNeonWizard: React state ----
    step, name, age, horizon, risk, wSectors, subSectors,
    goalReturn, monthlyContribution, capital, submitting, picks,
    \* ---- SmartWealthNeonWizard: asynchronous activity ----
    recReq,           \* the /api/recommend request of submit: "none" | "inflight"
    alerts,           \* how many times alert() was called (capped)
    \* ---- CompaniesProvider: React state ----
    ctxCompanies,     \* Company[] of the CompaniesContext
    \* ---- App / Header: the pathname both usePathname hooks hold ----
    pathname,
    \* ---- EarningsCalendar ----
    today,            \* the month new Date() falls in
    current,          \* useState<Date>(startOfMonth(new Date()))
    \* ---- LearnHub: the plan of the CompoundingLab ----
    initial, monthly, years, cagrPct, contribBump,
    \* ---- config: the build and the requests of the frontend ----
    env,              \* import.meta.env: [DEV, VITE_API_URL]
    configFile,       \* which of the repository's config modules is built
    API_BASE_URL,     \* export const API_BASE_URL = getApiBaseUrl()
    issued            \* the requests the components have passed to fetch

selVars == <<sectors, selectedSectors, companies, loading, error, currentStep,
             sortField, sortDirection, sectorsFetch, reqs, nreq, written>>
wizVars == <<step, name, age, horizon, risk, wSectors, subSectors,
             goalReturn, monthlyContribution, capital, submitting, picks,
             recReq, alerts>>
labVars == <<initial, monthly, years, cagrPct, contribBump>>
cfgVars == <<env, configFile, API_BASE_URL, issued>>
appVars == <<ctxCompanies, pathname, today, current, labVars, cfgVars>>
vars == <<selVars, wizVars, appVars>>

-----------------------------------------------------------------------------
(* Bounds of the model.                                                    *)

\* fetchCompanies calls per behaviour (they may overlap: nothing cancels one)
MaxRequests == 2
\* lines the server writes into streamed response bodies per behaviour
MaxLines == 2
\* companies in a non-streamed (or fallback) JSON response
MaxResp == 2
\* lines of one response body that are written and not yet read to their end:
\* in SpecSelector (overlapping calls), in SpecStream (one call)
MaxUnread == 1
MaxUnreadStream == 2
\* companies in the table of SpecSort
MaxList == 4
\* alert() calls of the wizard per behaviour
MaxAlerts == 1
\* months the calendar is moved away from the month it opened on
MaxMonthsAway == 6
\* the year the calendar is opened in (a leap year)
CalendarYear == 2024

-----------------------------------------------------------------------------
(* Data: sectors and companies the backend can serve.                      *)

NULL == "null"
UNDEFINED == "undefined"

AllSectors == <<"Tech", "Health">>

RECURSIVE SeqToSet(_)
SeqToSet(s) == IF s = <<>> THEN {} ELSE {Head(s)} \cup SeqToSet(Tail(s))

\* A string is a sequence of characters so that toLowerCase and localeCompare
\* are computed, not assumed.
Catalogue ==
    [ i \in 1..3 |->
        CASE i = 1 -> [ticker |-> <<"B">>,      current_price |-> 10, price_change_pct |-> -1,
                       market_cap |-> 2, pe_ratio |-> 0,  volume |-> 5, sector |-> "Tech"]
          [] i = 2 -> [ticker |-> <<"a", "b">>, current_price |-> 30, price_change_pct |-> 2,
                       market_cap |-> 3, pe_ratio |-> 15, volume |-> 5, sector |-> "Tech"]
          [] i = 3 -> [ticker |-> <<"A", "B">>, current_price |-> 20, price_change_pct |-> 0,
                       market_cap |-> 1, pe_ratio |-> 7,  volume |-> 9, sector |-> "Health"] ]

CompanyIds == DOMAIN Catalogue

\* the companies the server holds for a set of sectors
CompaniesOf(secs) == {c \in CompanyIds : Catalogue[c].sector \in secs}

\* type SortField, restricted to the columns whose header is clickable
\* ('name' has no header)
SortFields == {"ticker", "current_price", "price_change_pct", "market_cap", "pe_ratio", "volume"}
SortDirections == {"asc", "desc"}
\* the headers clicked in SpecSelector: the string column and the column the
\* table is sorted by initially (SpecSort and SpecStream click all six)
SelectorSortFields == {"ticker", "market_cap"}

-----------------------------------------------------------------------------
(* sortCompanies                                                           *)

toLowerCaseChar(ch) == CASE ch = "A" -> "a" [] ch = "B" -> "b" [] OTHER -> ch

toLowerCase(s) == [i \in 1..Len(s) |-> toLowerCaseChar(s[i])]

\* collation order of a character: lower case before upper case of a letter
CharOrd(ch) == CASE ch = "a" -> 1 [] ch = "A" -> 2 [] ch = "b" -> 3 [] ch = "B" -> 4

RECURSIVE localeCompare(_, _)
localeCompare(a, b) ==
    IF a = <<>> /\ b = <<>> THEN 0
    ELSE IF a = <<>> THEN -1
    ELSE IF b = <<>> THEN 1
    ELSE IF CharOrd(Head(a)) < CharOrd(Head(b)) THEN -1
    ELSE IF CharOrd(Head(a)) > CharOrd(Head(b)) THEN 1
    ELSE localeCompare(Tail(a), Tail(b))

IsStringField(field) == field = "ticker"

\* faulty variant of compareCompanies: the string branch forgets the direction
compareCompaniesStringsAscending(a, b, field, direction) ==
    IF IsStringField(field)
    THEN localeCompare(toLowerCase(Catalogue[a][field]), toLowerCase(Catalogue[b][field]))
    ELSE IF direction = "asc"
         THEN Catalogue[a][field] - Catalogue[b][field]
         ELSE Catalogue[b][field] - Catalogue[a][field]

\* the comparator passed to Array.prototype.sort
compareCompanies(a, b, field, direction) ==
    IF IsStringField(field)
    THEN LET aValue == toLowerCase(Catalogue[a][field])
             bValue == toLowerCase(Catalogue[b][field])
         IN  IF direction = "asc" THEN localeCompare(aValue, bValue)
                                  ELSE localeCompare(bValue, aValue)
    ELSE LET aValue == Catalogue[a][field]
             bValue == Catalogue[b][field]
         IN  IF direction = "asc" THEN aValue - bValue ELSE bValue - aValue

\* Array.prototype.sort is stable: x goes behind every element not after it
RECURSIVE InsertSorted(_, _, _, _)
InsertSorted(x, s, field, direction) ==
    IF s = <<>> THEN <<x>>
    ELSE IF compareCompanies(Head(s), x, field, direction) <= 0
         THEN <<Head(s)>> \o InsertSorted(x, Tail(s), field, direction)
         ELSE <<x>> \o s

RECURSIVE SortInto(_, _, _, _)
SortInto(rest, acc, field, direction) ==
    IF rest = <<>> THEN acc
    ELSE SortInto(Tail(rest), InsertSorted(Head(rest), acc, field, direction), field, direction)

sortCompanies(cs, field, direction) == SortInto(cs, <<>>, field, direction)

-----------------------------------------------------------------------------
(* The response body of /api/companies/dynamic with streaming: true.       *)
(* The body is text; a token stands for a run of bytes that the network    *)
(* delivers whole, and a chunk boundary can fall between any two tokens.   *)

Tok(k, c) == [k |-> k, c |-> c]
NL == Tok("\n", 0)

\* what the server can put on one line: a status object, one that carries no
\* error message, or one whose JSON text is cut short
EventKinds == {"started", "progress", "completed", "error", "errorNoMsg", "malformed"}

\* the text of one line, with its terminating newline:
\*   data: {"status": kind, ...}\n
\* Tok(kind, c) is the object's text up to its closing brace
EncodeLine(ev) ==
    IF ev.kind = "malformed"
    THEN <<Tok("data: ", 0), Tok("progress", ev.c), NL>>
    ELSE <<Tok("data: ", 0), Tok(ev.kind, ev.c), Tok("}", 0), NL>>

\* String.prototype.split('\n')
RECURSIVE SplitFrom(_, _, _)
SplitFrom(s, cur, acc) ==
    IF s = <<>> THEN Append(acc, cur)
    ELSE IF Head(s) = NL THEN SplitFrom(Tail(s), <<>>, Append(acc, cur))
         ELSE SplitFrom(Tail(s), Append(cur, Head(s)), acc)

split(s) == SplitFrom(s, <<>>, <<>>)

\* line.trim() is truthy && line.startsWith('data: ')
IsDataLine(line) ==
    /\ Len(line) > 0
    /\ line[1].k = "data: "

\* line.slice(6)
slice6(line) == SubSeq(line, 2, Len(line))

\* JSON.parse: ok = FALSE stands for the SyntaxError it throws
JSONparse(text) ==
    IF Len(text) = 2 /\ text[1].k \in {"started", "progress", "completed", "error", "errorNoMsg"}
                     /\ text[2].k = "}"
    THEN [ok |-> TRUE,
          status  |-> IF text[1].k = "errorNoMsg" THEN "error" ELSE text[1].k,
          company |-> text[1].c,
          error   |-> IF text[1].k = "error" THEN "Server error" ELSE UNDEFINED]
    ELSE [ok |-> FALSE, status |-> "", company |-> 0, error |-> UNDEFINED]

-----------------------------------------------------------------------------
(* SectorCompanySelector: state of one fetchCompanies call.                *)

\* error is rendered as a banner only when it is truthy ({error && ...})
Truthy(e) == e \notin {NULL, UNDEFINED, ""}

ReqIds == 1..MaxRequests

\* phase: where the async function is suspended
\*   "idle"     not called yet
\*   "fetch"    awaiting the first fetch (streaming: true)
\*   "stream"   awaiting reader.read()
\*   "fallback" awaiting the fallback fetch (streaming: false)
\*   "done"     returned
\* sectors, sortField, sortDirection: the values the call's closure holds.
\* inflight: text the server wrote that no read() has returned yet.
\* buffer:   the local variable buffer.
IdleReq ==
    [phase |-> "idle", sectors |-> <<>>, sortField |-> "market_cap", sortDirection |-> "desc",
     inflight |-> <<>>, buffer |-> <<>>]

\* a call that has returned: its closure and locals are gone
DoneReq == [IdleReq EXCEPT !.phase = "done"]

\* what the server may write on a line of the response to a request for secs
Events(secs) ==
    {[kind |-> k, c |-> 0] : k \in EventKinds \ {"progress"}}
        \cup {[kind |-> "progress", c |-> c] : c \in CompaniesOf(SeqToSet(secs))}

\* data.companies of a JSON response to a request for secs
RespLists(secs) ==
    UNION {[1..n -> CompaniesOf(SeqToSet(secs))] : n \in 0..MaxResp}

-----------------------------------------------------------------------------
(* fetchSectors (called once, by the mount effect)                         *)

fetchSectorsOk ==
    /\ sectorsFetch = "pending"
    /\ sectorsFetch' = "done"
    /\ sectors' = AllSectors
    /\ UNCHANGED <<selectedSectors, companies, loading, error, currentStep,
                   sortField, sortDirection, reqs, nreq, written>>
    /\ UNCHANGED <<wizVars, appVars>>

fetchSectorsInvalid ==
    /\ sectorsFetch = "pending"
    /\ sectorsFetch' = "done"
    /\ error' = "Invalid sectors data format"
    /\ UNCHANGED <<sectors, selectedSectors, companies, loading, currentStep,
                   sortField, sortDirection, reqs, nreq, written>>
    /\ UNCHANGED <<wizVars, appVars>>

\* the fetch rejects, the response is not ok, or response.json() throws
fetchSectorsFails ==
    /\ sectorsFetch = "pending"
    /\ sectorsFetch' = "done"
    /\ error' = "Failed to fetch sectors"
    /\ UNCHANGED <<sectors, selectedSectors, companies, loading, currentStep,
                   sortField, sortDirection, reqs, nreq, written>>
    /\ UNCHANGED <<wizVars, appVars>>

-----------------------------------------------------------------------------
(* Event handlers. A handler's guard is the condition under which the      *)
(* element it is bound to is rendered.                                     *)

\* faulty variant of handleSectorToggle: the sector is added without looking
\* for it in the selection
handleSectorToggleAppends(sectorName) ==
    /\ currentStep = "sectors"
    /\ sectorName \in SeqToSet(sectors)
    /\ selectedSectors' = Append(selectedSectors, sectorName)
    /\ UNCHANGED <<sectors, companies, loading, error, currentStep,
                   sortField, sortDirection, sectorsFetch, reqs, nreq, written>>
    /\ UNCHANGED <<wizVars, appVars>>

\* the sector buttons are rendered on the sectors step, one per loaded sector
handleSectorToggle(sectorName) ==
    /\ currentStep = "sectors"
    /\ sectorName \in SeqToSet(sectors)
    /\ selectedSectors' =
          IF sectorName \in SeqToSet(selectedSectors)
          THEN SelectSeq(selectedSectors, LAMBDA s : s # sectorName)
          ELSE Append(selectedSectors, sectorName)
    /\ UNCHANGED <<sectors, companies, loading, error, currentStep,
                   sortField, sortDirection, sectorsFetch, reqs, nreq, written>>
    /\ UNCHANGED <<wizVars, appVars>>

\* {selectedSectors.length > 0 && <button onClick={handleNextStep}>} inside
\* {currentStep === 'sectors' && ...}
NextButtonOffered == currentStep = "sectors" /\ Len(selectedSectors) > 0

\* fetchCompanies up to its first await
fetchCompaniesStart ==
    IF Len(selectedSectors) = 0
    THEN /\ error' = "Please select at least one sector"
         /\ UNCHANGED <<loading, currentStep, companies, reqs, nreq>>
    ELSE /\ loading' = TRUE
         /\ error' = NULL
         /\ currentStep' = "companies"
         /\ companies' = <<>>
         /\ nreq' = nreq + 1
         /\ reqs' = [reqs EXCEPT ![nreq + 1] =
                        [IdleReq EXCEPT !.phase = "fetch",
                                        !.sectors = selectedSectors,
                                        !.sortField = sortField,
                                        !.sortDirection = sortDirection]]

handleNextStep ==
    /\ NextButtonOffered
    /\ nreq < MaxRequests
    /\ IF currentStep = "sectors" /\ Len(selectedSectors) > 0
       THEN fetchCompaniesStart
       ELSE UNCHANGED <<loading, error, currentStep, companies, reqs, nreq>>
    /\ UNCHANGED <<sectors, selectedSectors, sortField, sortDirection, sectorsFetch, written>>
    /\ UNCHANGED <<wizVars, appVars>>

\* the Back to Sectors button is rendered on the companies step
handleBackStep ==
    /\ currentStep = "companies"
    /\ currentStep' = IF currentStep = "companies" THEN "sectors" ELSE currentStep
    /\ UNCHANGED <<sectors, selectedSectors, companies, loading, error,
                   sortField, sortDirection, sectorsFetch, reqs, nreq, written>>
    /\ UNCHANGED <<wizVars, appVars>>

\* the clickable column headers are rendered on the companies step when
\* loading is false and companies is not empty
SortHeadersShown == currentStep = "companies" /\ ~loading /\ Len(companies) > 0

\* faulty variant of newDirection: the direction flips whatever column is clicked
newDirectionAnyField(field) ==
    IF sortDirection = "desc" THEN "asc" ELSE "desc"

newDirection(field) ==
    IF sortField = field /\ sortDirection = "desc" THEN "asc" ELSE "desc"

handleSort(field) ==
    /\ SortHeadersShown
    /\ sortField' = field
    /\ sortDirection' = newDirection(field)
    /\ companies' = sortCompanies(companies, field, newDirection(field))
    /\ UNCHANGED <<sectors, selectedSectors, loading, error, currentStep,
                   sectorsFetch, reqs, nreq, written>>
    /\ UNCHANGED <<wizVars, appVars>>

getSortIcon(field) ==
    IF sortField # field THEN "updown"
    ELSE IF sortDirection = "asc" THEN "up" ELSE "down"

-----------------------------------------------------------------------------
(* fetchCompanies after its first await                                    *)

UnchangedByRequest ==
    /\ UNCHANGED <<sectors, selectedSectors, currentStep, sortField, sortDirection,
                   sectorsFetch, nreq>>
    /\ UNCHANGED <<wizVars, appVars>>

UnchangedByClient == UnchangedByRequest /\ UNCHANGED written

\* the first fetch rejects: catch (err), finally
FetchRejects(r) ==
    /\ reqs[r].phase = "fetch"
    /\ error' = "Failed to fetch companies"
    /\ loading' = FALSE
    /\ reqs' = [reqs EXCEPT ![r] = DoneReq]
    /\ UNCHANGED companies
    /\ UnchangedByClient

\* !response.ok: errorData = await response.json(), errorData.error may be absent
ResponseNotOk(r) ==
    /\ reqs[r].phase = "fetch"
    /\ \E msg \in {"Server error", UNDEFINED} :
          error' = IF Truthy(msg) THEN msg ELSE "Failed to fetch companies"
    /\ loading' = FALSE
    /\ reqs' = [reqs EXCEPT ![r] = DoneReq]
    /\ UNCHANGED companies
    /\ UnchangedByClient

\* response.ok and response.body has a reader: the read loop starts
ResponseOkStream(r) ==
    /\ reqs[r].phase = "fetch"
    /\ reqs' = [reqs EXCEPT ![r].phase = "stream"]
    /\ UNCHANGED <<companies, loading, error>>
    /\ UnchangedByClient

\* response.ok, no reader, data.companies is an array
ResponseJsonWith(r, data) ==
    /\ reqs[r].phase = "fetch"
    /\ data \in RespLists(reqs[r].sectors)
    /\ companies' = sortCompanies(data, reqs[r].sortField, reqs[r].sortDirection)
    /\ loading' = FALSE
    /\ reqs' = [reqs EXCEPT ![r] = DoneReq]
    /\ UNCHANGED error
    /\ UnchangedByClient

ResponseJson(r) == \E data \in RespLists(reqs[r].sectors) : ResponseJsonWith(r, data)

\* response.ok, no reader, data.companies is no array
ResponseJsonInvalid(r) ==
    /\ reqs[r].phase = "fetch"
    /\ error' = "Invalid response format from server"
    /\ loading' = FALSE
    /\ reqs' = [reqs EXCEPT ![r] = DoneReq]
    /\ UNCHANGED companies
    /\ UnchangedByClient

\* lines in flight: every line ends with its newline
RECURSIVE UnreadLines(_)
UnreadLines(text) ==
    IF text = <<>> THEN 0
    ELSE (IF Head(text) = NL THEN 1 ELSE 0) + UnreadLines(Tail(text))

\* the server writes one more line into the response body
ServerWrites(r, maxUnread) ==
    /\ reqs[r].phase = "stream"
    /\ written < MaxLines
    /\ UnreadLines(reqs[r].inflight) < maxUnread
    /\ written' = written + 1
    /\ \E ev \in Events(reqs[r].sectors) :
          reqs' = [reqs EXCEPT ![r].inflight = @ \o EncodeLine(ev)]
    /\ UNCHANGED <<companies, loading, error>>
    /\ UnchangedByRequest

\* the body of `for (const line of lines)` for one line; st carries the React
\* state the setters act on, returned = the function executed `return`
\* a line loop whose catch (parseError) gives the stream up
ProcessLineAbortsOnParseError(line, st) ==
    IF ~IsDataLine(line) THEN st
    ELSE LET data == JSONparse(slice6(line))
         IN  IF ~data.ok
             THEN [st EXCEPT !.error = "Streaming failed", !.loading = FALSE,
                             !.returned = TRUE, !.how = "parseError"]
             ELSE IF data.status = "started" THEN st
             ELSE IF data.status = "progress" /\ data.company # 0
                  THEN [st EXCEPT !.companies = Append(@, data.company),
                                  !.appended  = Append(@, data.company)]
             ELSE IF data.status = "completed"
                  THEN [st EXCEPT !.loading = FALSE, !.returned = TRUE, !.how = "completed"]
             ELSE IF data.status = "error"
                  THEN [st EXCEPT !.error = data.error, !.loading = FALSE,
                                  !.returned = TRUE, !.how = "errorEvent"]
             ELSE st

ProcessLine(line, st) ==
    IF ~IsDataLine(line) THEN st
    ELSE LET data == JSONparse(slice6(line))
         IN  IF ~data.ok THEN st   \* catch (parseError): console.error
             ELSE IF data.status = "started" THEN st
             ELSE IF data.status = "progress" /\ data.company # 0
                  THEN [st EXCEPT !.companies = Append(@, data.company),
                                  !.appended  = Append(@, data.company)]
             ELSE IF data.status = "completed"
                  THEN [st EXCEPT !.loading = FALSE, !.returned = TRUE, !.how = "completed"]
             ELSE IF data.status = "error"
                  THEN [st EXCEPT !.error = data.error, !.loading = FALSE,
                                  !.returned = TRUE, !.how = "errorEvent"]
             ELSE st

RECURSIVE ProcessLines(_, _)
ProcessLines(lines, st) ==
    IF lines = <<>> \/ st.returned THEN st
    ELSE ProcessLines(Tail(lines), ProcessLine(Head(lines), st))

\* TextDecoder.decode(value, {stream: true}): the characters of the chunk; a
\* token is a run of whole characters
decode(value) == value

\* what one pass of the read loop does with a chunk of the first n tokens in
\* flight: buffer += decode(value); lines = buffer.split('\n');
\* buffer = lines.pop() || ''; for (const line of lines) ...
ChunkResult(r, n) ==
    LET q     == reqs[r]
        text  == q.buffer \o decode(SubSeq(q.inflight, 1, n))
        lines == split(text)
        st    == ProcessLines(SubSeq(lines, 1, Len(lines) - 1),
                    [companies |-> companies, loading |-> loading, error |-> error,
                     appended |-> <<>>, returned |-> FALSE, how |-> ""])
    IN  [st |-> st, buffer |-> lines[Len(lines)]]

\* reader.read() returns a chunk: any non-empty prefix of the text in flight
ReadChunkN(r, n) ==
    /\ reqs[r].phase = "stream"
    /\ n \in 1..Len(reqs[r].inflight)
    /\ LET res == ChunkResult(r, n)
       IN  /\ companies' = res.st.companies
           /\ loading' = res.st.loading
           /\ error' = res.st.error
           /\ reqs' = [reqs EXCEPT ![r] =
                 IF res.st.returned
                 THEN DoneReq
                 ELSE [@ EXCEPT !.inflight = SubSeq(@, n + 1, Len(@)),
                                !.buffer   = res.buffer]]
    /\ UnchangedByClient

ReadChunk(r) == \E n \in 1..Len(reqs[r].inflight) : ReadChunkN(r, n)

\* reader.read() returns done: the server closed the body and all of it was
\* read; what is left in buffer is dropped
ReadDone(r) ==
    /\ reqs[r].phase = "stream"
    /\ reqs[r].inflight = <<>>
    /\ loading' = FALSE
    /\ reqs' = [reqs EXCEPT ![r] = DoneReq]
    /\ UNCHANGED <<companies, error>>
    /\ UnchangedByClient

\* reader.read() rejects: catch (streamError), the fallback fetch is issued
\* with the closure's selectedSectors
ReadThrows(r) ==
    /\ reqs[r].phase = "stream"
    /\ error' = "Streaming failed, falling back to regular request"
    /\ reqs' = [reqs EXCEPT ![r].phase = "fallback", ![r].inflight = <<>>, ![r].buffer = <<>>]
    /\ UNCHANGED <<companies, loading>>
    /\ UnchangedByClient

\* fallbackResponse.ok and data.companies is an array
FallbackOkWith(r, data) ==
    /\ reqs[r].phase = "fallback"
    /\ data \in RespLists(reqs[r].sectors)
    /\ companies' = sortCompanies(data, reqs[r].sortField, reqs[r].sortDirection)
    /\ reqs' = [reqs EXCEPT ![r] = DoneReq]
    /\ loading' = FALSE
    /\ UNCHANGED error
    /\ UnchangedByClient

FallbackOk(r) == \E data \in RespLists(reqs[r].sectors) : FallbackOkWith(r, data)

\* fallbackResponse.ok and data.companies is no array: nothing is set
FallbackInvalid(r) ==
    /\ reqs[r].phase = "fallback"
    /\ loading' = FALSE
    /\ reqs' = [reqs EXCEPT ![r] = DoneReq]
    /\ UNCHANGED <<companies, error>>
    /\ UnchangedByClient

\* !fallbackResponse.ok
FallbackNotOk(r) ==
    /\ reqs[r].phase = "fallback"
    /\ error' = "Failed to fetch companies"
    /\ loading' = FALSE
    /\ reqs' = [reqs EXCEPT ![r] = DoneReq]
    /\ UNCHANGED companies
    /\ UnchangedByClient

\* the fallback fetch rejects: the outer catch (err)
FallbackRejects(r) ==
    /\ reqs[r].phase = "fallback"
    /\ error' = "Failed to fetch companies"
    /\ loading' = FALSE
    /\ reqs' = [reqs EXCEPT ![r] = DoneReq]
    /\ UNCHANGED companies
    /\ UnchangedByClient

-----------------------------------------------------------------------------
(* Specification of the SectorCompanySelector page                         *)

InitSelector ==
    /\ sectors = <<>>
    /\ selectedSectors = <<>>
    /\ companies = <<>>
    /\ loading = FALSE
    /\ error = NULL
    /\ currentStep = "sectors"
    /\ sortField = "market_cap"
    /\ sortDirection = "desc"
    /\ sectorsFetch = "pending"
    /\ reqs = [r \in ReqIds |-> IdleReq]
    /\ nreq = 0
    /\ written = 0

InitWizard ==
    /\ step = 0
    /\ name = <<>>
    /\ age = ""
    /\ horizon = ""
    /\ risk = ""
    /\ wSectors = <<>>
    /\ subSectors = <<>>
    /\ goalReturn = ""
    /\ monthlyContribution = ""
    /\ capital = ""
    /\ submitting = FALSE
    /\ picks = <<>>
    /\ recReq = "none"
    /\ alerts = 0

\* the URLs of the configuration, as atoms
LocalDevUrl == "http://127.0.0.1:5001"

LocalDevUrl5000 == "http://127.0.0.1:5000"

PlaceholderUrl == "https://your-backend-url.vercel.app"

RailwayUrl == "https://smart-health-ai.up.railway.app"

DeployedUrl == "https://backend.example"

\* the page's own origin, to which a relative URL resolves
PageOrigin == "origin"

\* getApiBaseUrl of src/web/src/config.ts, lines 2-11
getApiBaseUrlFromEnv(e) ==
    IF e.DEV
    THEN LocalDevUrl
    ELSE IF Truthy(e.VITE_API_URL) THEN e.VITE_API_URL ELSE PlaceholderUrl

\* getApiBaseUrl of src/unnamed/part_000 (and of config.ts, lines 22-30)
getApiBaseUrlFixed(e) ==
    IF e.DEV THEN LocalDevUrl5000 ELSE RailwayUrl

ConfigFiles == {"config.ts", "part_000"}

getApiBaseUrl(file, e) ==
    IF file = "config.ts" THEN getApiBaseUrlFromEnv(e) ELSE getApiBaseUrlFixed(e)

\* a development build of config.ts, its module evaluated, nothing requested
InitConfig ==
    /\ env = [DEV |-> TRUE, VITE_API_URL |-> UNDEFINED]
    /\ configFile = "config.ts"
    /\ API_BASE_URL = getApiBaseUrl(configFile, env)
    /\ issued = {}

\* LearnHub: useState(5000), useState(500), useState(10), useState(12),
\* useState(3)
InitLab ==
    /\ initial = 5000
    /\ monthly = 500
    /\ years = 10
    /\ cagrPct = 12
    /\ contribBump = 3

\* CompaniesProvider: useState<Company[]>([]); the page is opened on "/" in
\* a month of CalendarYear
InitApp ==
    /\ ctxCompanies = <<>>
    /\ pathname = <<"/">>
    /\ today = [y |-> CalendarYear, m |-> 1, d |-> 1]
    /\ current = [y |-> CalendarYear, m |-> 1, d |-> 1]
    /\ InitLab
    /\ InitConfig

Init == InitSelector /\ InitWizard /\ InitApp

\* the actions of a fetchCompanies call after its first await, but for the
\* server's writes
NextRequest ==
    \/ \E r \in ReqIds : FetchRejects(r)
    \/ \E r \in ReqIds : ResponseNotOk(r)
    \/ \E r \in ReqIds : ResponseOkStream(r)
    \/ \E r \in ReqIds : ResponseJson(r)
    \/ \E r \in ReqIds : ResponseJsonInvalid(r)
    \/ \E r \in ReqIds : ReadChunk(r)
    \/ \E r \in ReqIds : ReadDone(r)
    \/ \E r \in ReqIds : ReadThrows(r)
    \/ \E r \in ReqIds : FallbackOk(r)
    \/ \E r \in ReqIds : FallbackInvalid(r)
    \/ \E r \in ReqIds : FallbackNotOk(r)
    \/ \E r \in ReqIds : FallbackRejects(r)

\* the page with up to MaxRequests calls of fetchCompanies, which overlap when
\* the user goes back and asks again before the earlier call has returned
NextSelector ==
    \/ fetchSectorsOk
    \/ fetchSectorsInvalid
    \/ fetchSectorsFails
    \/ \E s \in SeqToSet(AllSectors) : handleSectorToggle(s)
    \/ handleNextStep
    \/ handleBackStep
    \/ \E f \in SelectorSortFields : handleSort(f)
    \/ \E r \in ReqIds : ServerWrites(r, MaxUnread)
    \/ NextRequest

SpecSelector == Init /\ [][NextSelector]_vars

\* the page with one call of fetchCompanies whose body arrives in arbitrary
\* chunks, several lines to a chunk
NextStream ==
    \/ fetchSectorsOk
    \/ \E s \in SeqToSet(AllSectors) : handleSectorToggle(s)
    \/ (nreq = 0 /\ handleNextStep)
    \/ handleBackStep
    \/ \E f \in SortFields : handleSort(f)
    \/ ServerWrites(1, MaxUnreadStream)
    \/ NextRequest

SpecStream == Init /\ [][NextStream]_vars

\* the table after a load, any list the server can have produced, and the
\* column headers
InitSort ==
    /\ sectors = AllSectors
    /\ selectedSectors = AllSectors
    /\ companies \in UNION {[1..n -> CompanyIds] : n \in 1..MaxList}
    /\ loading = FALSE
    /\ error = NULL
    /\ currentStep = "companies"
    /\ sortField = "market_cap"
    /\ sortDirection = "desc"
    /\ sectorsFetch = "done"
    /\ reqs = [r \in ReqIds |-> IF r = 1 THEN DoneReq ELSE IdleReq]
    /\ nreq = 1
    /\ written = 0

NextSort == \E f \in SortFields : handleSort(f)

InitSortPage == InitSort /\ InitWizard /\ InitApp

SpecSort == InitSortPage /\ [][NextSort]_vars

-----------------------------------------------------------------------------
(* SmartWealthNeonWizard                                                   *)

\* const steps = [...]: steps.length
StepsLength == 7

\* the values typed or chosen in the model
Names == {<<>>, <<" ">>, <<"A", "l">>, <<" ", "A">>}
AgeInputs == {"", "-1", "30"}
HorizonOptions == {"", "5 years"}
RiskOptions == {"", "High"}
AmountInputs == {"", "500"}

\* sectorList and subSectorMap: two of the ten sectors and, of their four
\* sub-sectors each, "Automation", which both list, and one more
sectorList == <<"Space & Robotics", "Industrial Tech">>

subSectorMap(sec) ==
    CASE sec = "Space & Robotics" -> <<"Drones", "Automation">>
      [] sec = "Industrial Tech"  -> <<"Automation">>
      [] OTHER                    -> <<>>

\* String.prototype.trim
RECURSIVE trimStart(_)
trimStart(str) ==
    IF str # <<>> /\ Head(str) = " " THEN trimStart(Tail(str)) ELSE str

RECURSIVE trimEnd(_)
trimEnd(str) ==
    IF str # <<>> /\ str[Len(str)] = " " THEN trimEnd(SubSeq(str, 1, Len(str) - 1)) ELSE str

trim(str) == trimEnd(trimStart(str))

\* Number(x) of the text of the age input or of the age state, which is '' at
\* first and a number, written here in decimal, afterwards: '' gives 0
Number(x) == CASE x = "" -> 0 [] x = "0" -> 0 [] x = "-1" -> -1 [] x = "30" -> 30

\* the decimal form of a number held in the age state
NumberValue(n) == CASE n = 0 -> "0" [] n = -1 -> "-1" [] n = 30 -> "30"

\* faulty variant of canNext: the name is not trimmed
canNextNoTrim ==
    IF step = 1 THEN Len(name) > 0 /\ Number(age) > 0
    ELSE IF step = 2 THEN horizon # "" /\ risk # ""
    ELSE IF step = 3 THEN Len(wSectors) > 0
    ELSE IF step = 4 THEN Len(subSectors) > 0
    ELSE IF step = 5 THEN goalReturn # "" \/ monthlyContribution # "" \/ capital # ""
    ELSE TRUE

canNext ==
    IF step = 1 THEN Len(trim(name)) > 0 /\ Number(age) > 0
    ELSE IF step = 2 THEN horizon # "" /\ risk # ""
    ELSE IF step = 3 THEN Len(wSectors) > 0
    ELSE IF step = 4 THEN Len(subSectors) > 0
    ELSE IF step = 5 THEN goalReturn # "" \/ monthlyContribution # "" \/ capital # ""
    ELSE TRUE

\* toggleFrom(list, v, setter)
toggleFrom(list, v) ==
    IF v \in SeqToSet(list) THEN SelectSeq(list, LAMBDA x : x # v) ELSE Append(list, v)

UnchangedBySelector == UNCHANGED <<selVars, appVars>>

\* step 1: <input value={name} onChange={e => setName(e.target.value)}>
setName(v) ==
    /\ step = 1
    /\ name' = v
    /\ UNCHANGED <<step, age, horizon, risk, wSectors, subSectors, goalReturn,
                   monthlyContribution, capital, submitting, picks, recReq, alerts>>
    /\ UnchangedBySelector

\* step 1: onChange={e => setAge(Number(e.target.value))}
setAge(v) ==
    /\ step = 1
    /\ age' = NumberValue(Number(v))
    /\ UNCHANGED <<step, name, horizon, risk, wSectors, subSectors, goalReturn,
                   monthlyContribution, capital, submitting, picks, recReq, alerts>>
    /\ UnchangedBySelector

\* step 2: <Select value={horizon} onChange={setHorizon}>
setHorizon(v) ==
    /\ step = 2
    /\ horizon' = v
    /\ UNCHANGED <<step, name, age, risk, wSectors, subSectors, goalReturn,
                   monthlyContribution, capital, submitting, picks, recReq, alerts>>
    /\ UnchangedBySelector

setRisk(v) ==
    /\ step = 2
    /\ risk' = v
    /\ UNCHANGED <<step, name, age, horizon, wSectors, subSectors, goalReturn,
                   monthlyContribution, capital, submitting, picks, recReq, alerts>>
    /\ UnchangedBySelector

\* step 3: one ToggleCard per sector of sectorList
toggleSector(sec) ==
    /\ step = 3
    /\ sec \in SeqToSet(sectorList)
    /\ wSectors' = toggleFrom(wSectors, sec)
    /\ UNCHANGED <<step, name, age, horizon, risk, subSectors, goalReturn,
                   monthlyContribution, capital, submitting, picks, recReq, alerts>>
    /\ UnchangedBySelector

\* step 4: one Chip per sub-sector of every selected sector
toggleSubSector(sec, ss) ==
    /\ step = 4
    /\ sec \in SeqToSet(wSectors)
    /\ ss \in SeqToSet(subSectorMap(sec))
    /\ subSectors' = toggleFrom(subSectors, ss)
    /\ UNCHANGED <<step, name, age, horizon, risk, wSectors, goalReturn,
                   monthlyContribution, capital, submitting, picks, recReq, alerts>>
    /\ UnchangedBySelector

\* step 5: the three goal inputs
setGoalReturn(v) ==
    /\ step = 5
    /\ goalReturn' = v
    /\ UNCHANGED <<step, name, age, horizon, risk, wSectors, subSectors,
                   monthlyContribution, capital, submitting, picks, recReq, alerts>>
    /\ UnchangedBySelector

setMonthlyContribution(v) ==
    /\ step = 5
    /\ monthlyContribution' = v
    /\ UNCHANGED <<step, name, age, horizon, risk, wSectors, subSectors,
                   goalReturn, capital, submitting, picks, recReq, alerts>>
    /\ UnchangedBySelector

setCapital(v) ==
    /\ step = 5
    /\ capital' = v
    /\ UNCHANGED <<step, name, age, horizon, risk, wSectors, subSectors,
                   goalReturn, monthlyContribution, submitting, picks, recReq, alerts>>
    /\ UnchangedBySelector

Min(a, b) == IF a < b THEN a ELSE b
Max(a, b) == IF a > b THEN a ELSE b

\* the Next button: rendered when step < 5 && step !== 0, disabled={!canNext()}
NextButtonShown == step < 5 /\ step # 0
NextButtonEnabled == NextButtonShown /\ canNext

\* const next = () => { if (canNext()) setStep(s => Math.min(s + 1, steps.length - 1)) }
\* bound to the Start button of step 0 and to the Next button
next ==
    /\ step = 0 \/ NextButtonEnabled
    /\ step' = IF canNext THEN Min(step + 1, StepsLength - 1) ELSE step
    /\ UNCHANGED <<name, age, horizon, risk, wSectors, subSectors, goalReturn,
                   monthlyContribution, capital, submitting, picks, recReq, alerts>>
    /\ UnchangedBySelector

\* const prev = () => setStep(s => Math.max(s - 1, 0)); the Back button is
\* rendered when step > 0 && step < 6
prev ==
    /\ step > 0 /\ step < 6
    /\ step' = Max(step - 1, 0)
    /\ UNCHANGED <<name, age, horizon, risk, wSectors, subSectors, goalReturn,
                   monthlyContribution, capital, submitting, picks, recReq, alerts>>
    /\ UnchangedBySelector

\* submit up to its await; the button is rendered when step === 5,
\* disabled={!canNext() || submitting}
submit ==
    /\ step = 5 /\ canNext /\ ~submitting
    /\ IF ~canNext
       THEN UNCHANGED <<submitting, recReq>>
       ELSE /\ submitting' = TRUE
            /\ recReq' = "inflight"
    /\ UNCHANGED <<step, name, age, horizon, risk, wSectors, subSectors, goalReturn,
                   monthlyContribution, capital, picks, alerts>>
    /\ UnchangedBySelector

\* what /api/recommend can answer: an array of picks, with or without their
\* chart series, or JSON that is no array
RecommendData ==
    { [isArray |-> TRUE,  items |-> <<>>],
      [isArray |-> TRUE,  items |-> <<[ticker |-> "P1", series1Y |-> "api"]>>],
      [isArray |-> TRUE,  items |-> <<[ticker |-> "P1", series1Y |-> "none"]>>],
      [isArray |-> FALSE, items |-> <<>>] }

\* (Array.isArray(data) ? data : []).map(p => ({...p, series1Y: p.series1Y || genSeries(...)}))
enrich(data) ==
    LET arr == IF data.isArray THEN data.items ELSE <<>>
    IN  [i \in 1..Len(arr) |->
            [arr[i] EXCEPT !.series1Y = IF @ = "none" THEN "generated" ELSE @]]

\* the response arrived and res.json() parsed it: setPicks, setStep(6), finally
recommendOk(data) ==
    /\ recReq = "inflight"
    /\ picks' = enrich(data)
    /\ step' = 6
    /\ submitting' = FALSE
    /\ recReq' = "none"
    /\ UNCHANGED <<name, age, horizon, risk, wSectors, subSectors, goalReturn,
                   monthlyContribution, capital, alerts>>
    /\ UnchangedBySelector

\* faulty variant of recommendFails: setStep(6) is reached on the failure path
recommendFailsEntersResults ==
    /\ recReq = "inflight"
    /\ alerts < MaxAlerts
    /\ alerts' = alerts + 1
    /\ step' = 6
    /\ submitting' = FALSE
    /\ recReq' = "none"
    /\ UNCHANGED <<name, age, horizon, risk, wSectors, subSectors, goalReturn,
                   monthlyContribution, capital, picks>>
    /\ UNCHANGED <<selVars, appVars>>

\* fetch rejected or res.json() threw: catch (e) { alert(...) }, finally
recommendFails ==
    /\ recReq = "inflight"
    /\ alerts < MaxAlerts
    /\ alerts' = alerts + 1
    /\ submitting' = FALSE
    /\ recReq' = "none"
    /\ UNCHANGED <<step, name, age, horizon, risk, wSectors, subSectors, goalReturn,
                   monthlyContribution, capital, picks>>
    /\ UnchangedBySelector

\* the Restart button of step 6: onClick={() => setStep(0)}
restart ==
    /\ step = 6
    /\ step' = 0
    /\ UNCHANGED <<name, age, horizon, risk, wSectors, subSectors, goalReturn,
                   monthlyContribution, capital, submitting, picks, recReq, alerts>>
    /\ UnchangedBySelector

NextWizard ==
    \/ \E v \in Names : setName(v)
    \/ \E v \in AgeInputs : setAge(v)
    \/ \E v \in HorizonOptions : setHorizon(v)
    \/ \E v \in RiskOptions : setRisk(v)
    \/ \E sec \in SeqToSet(sectorList) : toggleSector(sec)
    \/ \E sec \in SeqToSet(sectorList) : \E ss \in SeqToSet(subSectorMap(sec)) : toggleSubSector(sec, ss)
    \/ \E v \in AmountInputs : setGoalReturn(v)
    \/ \E v \in AmountInputs : setMonthlyContribution(v)
    \/ \E v \in AmountInputs : setCapital(v)
    \/ next
    \/ prev
    \/ submit
    \/ \E data \in RecommendData : recommendOk(data)
    \/ recommendFails
    \/ restart

SpecWizard == Init /\ [][NextWizard]_vars

-----------------------------------------------------------------------------
(* Properties of the SectorCompanySelector page                            *)

\* the text of a line without its newline
LineOf(ev) == SubSeq(EncodeLine(ev), 1, Len(EncodeLine(ev)) - 1)

IsProgressLine(line) == \E c \in CompanyIds : line = LineOf([kind |-> "progress", c |-> c])

IsEndLine(line) ==
    \E k \in {"completed", "error", "errorNoMsg"} : line = LineOf([kind |-> k, c |-> 0])

\* the companies of the progress lines among lines, up to the first line that
\* ends the stream
RECURSIVE ProgressUntilEnd(_)
ProgressUntilEnd(lines) ==
    IF lines = <<>> \/ IsEndLine(Head(lines)) THEN <<>>
    ELSE IF IsProgressLine(Head(lines))
         THEN <<Head(lines)[2].c>> \o ProgressUntilEnd(Tail(lines))
         ELSE ProgressUntilEnd(Tail(lines))

\* the companies a call has still to append: those of the complete lines of
\* what its buffer holds followed by what is in flight
StillToAppend(q) ==
    IF q.phase # "stream" THEN <<>>
    ELSE LET lines == split(q.buffer \o q.inflight)
         IN  ProgressUntilEnd(SubSeq(lines, 1, Len(lines) - 1))

\* C1: progressive loading. Whatever prefix of the text in flight a read()
\* returns, the pass of the read loop appends to the end of companies exactly
\* the companies of the progress lines it completes, in the order sent, and
\* leaves the rest to come (nothing is lost, duplicated or reordered by a line
\* spanning two chunks); and whenever a company is appended loading is true.
C1_ProgressiveLoading ==
    [][\A r \in ReqIds : \A n \in 1..Len(reqs[r].inflight) :
          ReadChunkN(r, n) =>
             LET got == ChunkResult(r, n).st.appended
             IN  /\ companies' = companies \o got
                 /\ StillToAppend(reqs[r]) = got \o StillToAppend(reqs'[r])
                 /\ (got # <<>> => loading)]_vars

\* C1, the part that does not involve loading: the same statement about the
\* chunks alone
C1_ChunkSplitOnly ==
    [][\A r \in ReqIds : \A n \in 1..Len(reqs[r].inflight) :
          ReadChunkN(r, n) =>
             LET got == ChunkResult(r, n).st.appended
             IN  /\ companies' = companies \o got
                 /\ StillToAppend(reqs[r]) = got \o StillToAppend(reqs'[r])]_vars

\* a line split over two chunks has been put together and its company appended
C1_ChunkSplitWitness ==
    /\ reqs[1].phase = "stream"
    /\ reqs[1].buffer = <<>>
    /\ reqs[1].inflight # <<>>
    /\ Len(companies) = 1
    /\ loading

\* case-insensitive rank of a letter
FoldRank(ch) == CASE ch \in {"a", "A"} -> 1 [] ch \in {"b", "B"} -> 2

\* a comes no later than b when letter case is ignored
RECURSIVE FoldLeq(_, _)
FoldLeq(a, b) ==
    IF a = <<>> THEN TRUE
    ELSE IF b = <<>> THEN FALSE
    ELSE IF FoldRank(Head(a)) # FoldRank(Head(b)) THEN FoldRank(Head(a)) < FoldRank(Head(b))
    ELSE FoldLeq(Tail(a), Tail(b))

\* company a may stand before company b in a list ordered by field in direction
InOrder(a, b, field, direction) ==
    LET x == IF direction = "asc" THEN a ELSE b
        y == IF direction = "asc" THEN b ELSE a
    IN  IF field = "ticker"
        THEN FoldLeq(Catalogue[x][field], Catalogue[y][field])
        ELSE Catalogue[x][field] <= Catalogue[y][field]

IsOrdered(cs, field, direction) ==
    \A i \in 1..(Len(cs) - 1) : InOrder(cs[i], cs[i + 1], field, direction)

Count(c, cs) == Cardinality({i \in 1..Len(cs) : cs[i] = c})

IsPermutation(cs, ds) == \A c \in CompanyIds : Count(c, cs) = Count(c, ds)

\* C2: sorting is maintained during streaming updates. Whenever the companies
\* table is shown, during the stream and after it, companies is ordered by
\* the current sortField and sortDirection.
C2_SortedWhileShown ==
    (currentStep = "companies" /\ Len(companies) > 0)
        => IsOrdered(companies, sortField, sortDirection)

\* C3: handleSort(field) sets the sort field to field and the direction to
\* 'asc' if field was the sort field and the direction 'desc', to 'desc' in
\* every other case; afterwards getSortIcon shows a direction arrow on field,
\* the arrow of the new direction, and on no other column.
C3_HandleSortToggles ==
    [][\A f \in SortFields :
          handleSort(f) =>
             /\ sortField' = f
             /\ sortDirection' = (IF sortField = f /\ sortDirection = "desc" THEN "asc" ELSE "desc")
             /\ \A g \in SortFields : (getSortIcon(g)' # "updown") <=> (g = f)
             /\ getSortIcon(f)' = (IF sortDirection' = "asc" THEN "up" ELSE "down")]_vars

\* a second click on the price column has turned the direction to ascending
C3_Witness ==
    /\ sortField = "current_price"
    /\ sortDirection = "asc"
    /\ getSortIcon("current_price") = "up"
    /\ Len(companies) >= 2

\* C4: after handleSort(field) the companies list is a permutation of the
\* list before and is ordered by field in the new direction, numeric fields
\* by value and string fields without regard to letter case.
C4_SortPermutesAndOrders ==
    [][\A f \in SortFields :
          handleSort(f) =>
             /\ IsPermutation(companies, companies')
             /\ Len(companies') = Len(companies)
             /\ IsOrdered(companies', f, sortDirection')]_vars

\* a table holding tickers "B", "ab" and "AB" sorted by ticker, ascending
C4_Witness ==
    /\ sortField = "ticker"
    /\ sortDirection = "asc"
    /\ SeqToSet(companies) = CompanyIds
    /\ Len(companies) > Cardinality(CompanyIds)

NoDuplicates(seq) == \A i, j \in 1..Len(seq) : seq[i] = seq[j] => i = j

\* C5: selectedSectors never holds a sector twice; handleSectorToggle adds
\* the sector if it is absent and removes it if it is present; the Next
\* button is offered exactly on the sectors step with a non-empty selection;
\* and a company fetch starts only on the sectors step with a non-empty
\* selection, for the sectors selected.
C5_SelectionEnablesNext ==
    /\ [](NoDuplicates(selectedSectors)
            /\ (NextButtonOffered <=> (currentStep = "sectors" /\ selectedSectors # <<>>)))
    /\ [][\A s \in SeqToSet(AllSectors) :
             handleSectorToggle(s) =>
                SeqToSet(selectedSectors') =
                   (IF s \in SeqToSet(selectedSectors)
                    THEN SeqToSet(selectedSectors) \ {s}
                    ELSE SeqToSet(selectedSectors) \cup {s})]_vars
    /\ [][nreq' # nreq =>
             /\ currentStep = "sectors"
             /\ selectedSectors # <<>>
             /\ nreq' = nreq + 1
             /\ reqs'[nreq'].phase = "fetch"
             /\ reqs'[nreq'].sectors = selectedSectors]_vars

\* back on the sectors step after a fetch, with both sectors selected, the
\* one selected first last
C5_Witness ==
    /\ nreq = 1
    /\ currentStep = "sectors"
    /\ selectedSectors = <<"Health", "Tech">>
    /\ NextButtonOffered

\* C6: when reading the stream threw and the fallback request succeeds, the
\* companies list becomes exactly the companies of the fallback response,
\* sorted by the current sort field and direction.
C6_FallbackSortedByCurrent ==
    [][\A r \in ReqIds : \A data \in UNION {[1..n -> CompanyIds] : n \in 0..MaxResp} :
          FallbackOkWith(r, data) =>
             /\ IsPermutation(data, companies')
             /\ Len(companies') = Len(data)
             /\ IsOrdered(companies', sortField', sortDirection')]_vars

\* a pass of the read loop of call r met an 'error' event
StreamErrorEvent(r) ==
    \E n \in 1..Len(reqs[r].inflight) :
        ReadChunkN(r, n) /\ ChunkResult(r, n).st.how = "errorEvent"

\* C7: every failing outcome of fetchCompanies (the fetch rejects, the
\* response is not OK, the stream delivers an 'error' event, a non-streamed
\* response has an invalid format) ends with an error message the banner
\* shows and with loading false.
C7_FailureShowsError ==
    [][\A r \in ReqIds :
          (\/ FetchRejects(r)
           \/ ResponseNotOk(r)
           \/ StreamErrorEvent(r)
           \/ ResponseJsonInvalid(r)
           \/ FallbackInvalid(r)
           \/ FallbackNotOk(r)
           \/ FallbackRejects(r))
             => Truthy(error') /\ ~loading']_vars

\* C8: strict sector filtering. While the latest call of fetchCompanies is
\* running, every company of the list belongs to a sector of that call's
\* request.
C8_StrictSectorFiltering ==
    (nreq > 0 /\ reqs[nreq].phase \notin {"idle", "done"})
        => \A i \in 1..Len(companies) :
              Catalogue[companies[i]].sector \in SeqToSet(reqs[nreq].sectors)

-----------------------------------------------------------------------------
(* Properties of the SmartWealthNeonWizard                                 *)

\* the validation of the current step
StepValidation ==
    CASE step = 1 -> (\E i \in 1..Len(name) : name[i] # " ") /\ age \notin {"", "0", "-1"}
      [] step = 2 -> horizon # "" /\ risk # ""
      [] step = 3 -> wSectors # <<>>
      [] step = 4 -> subSectors # <<>>
      [] OTHER    -> TRUE

\* C9: on steps 1 to 4 the Next button is enabled exactly when the step's
\* validation passes (a name that is not blank and an age above 0, a horizon
\* and a risk, a sector, a sub-sector); next() leaves the step alone when the
\* validation fails and moves it on by one otherwise, and nothing else moves
\* the wizard on from a step to the next; the step stays in 0..6.
C9_NextGuardedByValidation ==
    /\ [](step \in 0..6 /\ (step \in 1..4 => (NextButtonEnabled <=> StepValidation)))
    /\ [][next => step' = (IF StepValidation THEN step + 1 ELSE step)]_vars
    /\ [][(step \in 1..4 /\ step' = step + 1) => StepValidation]_vars

\* on step 4 with no sub-sector chosen: steps 1 to 3 were passed with a name
\* that has a leading blank, and Next is disabled
C9_Witness ==
    /\ step = 4
    /\ name = <<" ", "A">>
    /\ subSectors = <<>>
    /\ ~NextButtonEnabled

\* C10: when the /api/recommend request rejects or its body is no JSON, the
\* step and picks stay as they are, the user is alerted and submitting is
\* false again; the step becomes 6 only when a response has been received and
\* parsed.
C10_SubmitErrorHandling ==
    /\ [][recommendFails =>
             /\ step' = step
             /\ picks' = picks
             /\ alerts' = alerts + 1
             /\ submitting' = FALSE]_vars
    /\ [][(step # 6 /\ step' = 6) => \E data \in RecommendData : recommendOk(data)]_vars

\* a submission has failed: the wizard is still on the goals step, alerted
\* once, with no picks and the button free again
C10_Witness ==
    /\ alerts = 1
    /\ step = 5
    /\ picks = <<>>
    /\ ~submitting
    /\ recReq = "none"

-----------------------------------------------------------------------------
(* CompaniesContext and the Stock Scoring page                             *)

\* CompaniesProvider.addCompany: prev => prev.some(c => c.ticker ===
\* company.ticker) ? prev : [...prev, company]
addCompany(prevList, company) ==
    IF \E i \in 1..Len(prevList) : Catalogue[prevList[i]].ticker = Catalogue[company].ticker
    THEN prevList
    ELSE Append(prevList, company)

\* CompaniesProvider.clearCompanies
clearCompanies == <<>>

\* const hasCompanies = companies.length > 0 (of the context's companies).
\* SectorCompanySelector keeps its list in its own useState and no component
\* calls the context's setCompanies, addCompany or clearCompanies, so no
\* action changes ctxCompanies.
hasCompanies == Len(ctxCompanies) > 0

\* StockScoring: the rows of the Available Companies table, which is rendered
\* when hasCompanies; otherwise the No Companies Available message is
StockScoringRows == IF hasCompanies THEN ctxCompanies ELSE <<>>

\* C11: once SectorCompanySelector has loaded at least one company,
\* useCompanies().hasCompanies is true and StockScoring lists the companies
\* loaded.
C11_LoadedCompaniesShared ==
    Len(companies) > 0
        => /\ hasCompanies
           /\ SeqToSet(StockScoringRows) = SeqToSet(companies)

-----------------------------------------------------------------------------
(* App and Header: routing on window.location.pathname                     *)

\* pathnames, as sequences of characters
PathAdvisor   == <<"/">>
PathSectors   == <<"/", "s", "e", "c", "t", "o", "r", "s">>
PathScoring   == <<"/", "s", "c", "o", "r", "i", "n", "g">>
PathEmerging  == <<"/", "e", "m", "e", "r", "g", "i", "n", "g">>
PathEarnings  == <<"/", "e", "a", "r", "n", "i", "n", "g", "s">>
PathCommunity == <<"/", "c", "o", "m", "m", "u", "n", "i", "t", "y">>
PathLearn     == <<"/", "l", "e", "a", "r", "n">>

\* Header.tsx: const NAV
NAV ==
    << [label |-> "Advisor",   href |-> PathAdvisor],
       [label |-> "Sectors",   href |-> PathSectors],
       [label |-> "Scoring",   href |-> PathScoring],
       [label |-> "Emerging",  href |-> PathEmerging],
       [label |-> "Earnings",  href |-> PathEarnings],
       [label |-> "Community", href |-> PathCommunity],
       [label |-> "Learn",     href |-> PathLearn] >>

NavHrefs == {NAV[i].href : i \in DOMAIN NAV}

\* App.tsx: const ROUTES
ROUTES ==
    << [path |-> PathAdvisor,   key |-> "advisor"],
       [path |-> PathEarnings,  key |-> "earnings"],
       [path |-> PathLearn,     key |-> "learn"],
       [path |-> PathCommunity, key |-> "community"],
       [path |-> PathEmerging,  key |-> "emerging"] >>

\* String.prototype.startsWith
startsWith(str, prefix) ==
    /\ Len(str) >= Len(prefix)
    /\ SubSeq(str, 1, Len(prefix)) = prefix

\* App: the body of useMemo for activeRoute, for pathname p
routeOf(p) ==
    IF startsWith(p, PathEarnings) THEN ROUTES[2]
    ELSE IF startsWith(p, PathLearn) THEN ROUTES[3]
    ELSE IF startsWith(p, PathCommunity) THEN ROUTES[4]
    ELSE IF startsWith(p, PathEmerging) THEN ROUTES[5]
    ELSE ROUTES[1]

\* App: const activeRoute = useMemo(..., [pathname])
activeRoute == routeOf(pathname)

\* App: {activeRoute.key === "advisor" && <SkylineFooter />}
SkylineFooterRendered == activeRoute.key = "advisor"

\* Header: const activeKey = useMemo(...)
activeKey ==
    IF startsWith(pathname, PathSectors) THEN PathSectors
    ELSE IF startsWith(pathname, PathScoring) THEN PathScoring
    ELSE IF startsWith(pathname, PathEmerging) THEN PathEmerging
    ELSE IF startsWith(pathname, PathEarnings) THEN PathEarnings
    ELSE IF startsWith(pathname, PathCommunity) THEN PathCommunity
    ELSE IF startsWith(pathname, PathLearn) THEN PathLearn
    ELSE PathAdvisor

\* Header: push(href) = history.pushState, then a popstate event, on which
\* both usePathname hooks set the pathname. When the route's key changes App
\* replaces the page element: an EarningsCalendar that is mounted starts from
\* useState(startOfMonth(new Date())).
\* date-fns startOfMonth(date)
startOfMonth(date) == [date EXCEPT !.d = 1]

push(href) ==
    /\ href \in NavHrefs
    /\ pathname' = href
    /\ current' = IF routeOf(href).key # activeRoute.key
                  THEN startOfMonth(today)
                  ELSE current
    /\ UNCHANGED <<ctxCompanies, today, labVars, cfgVars>>
    /\ UNCHANGED <<selVars, wizVars>>

-----------------------------------------------------------------------------
(* EarningsCalendar: a Date is a local calendar day [y, m, d]; every Date  *)
(* the component computes days from is a midnight                          *)

IsLeapYear(y) == (y % 4 = 0 /\ y % 100 # 0) \/ y % 400 = 0

DaysInMonth(y, m) ==
    IF m = 2 THEN (IF IsLeapYear(y) THEN 29 ELSE 28)
    ELSE IF m \in {4, 6, 9, 11} THEN 30 ELSE 31

\* the day's count of days since 1 January 1970, which is what a Date holds
EpochDay(date) ==
    LET yy  == IF date.m <= 2 THEN date.y - 1 ELSE date.y
        era == yy \div 400
        yoe == yy - era * 400
        mp  == IF date.m > 2 THEN date.m - 3 ELSE date.m + 9
        doy == (153 * mp + 2) \div 5 + date.d - 1
        doe == yoe * 365 + yoe \div 4 - yoe \div 100 + doy
    IN  era * 146097 + doe - 719468

\* Date.prototype.getDay: 0 is Sunday; 1 January 1970 was a Thursday
getDay(date) == (EpochDay(date) + 4) % 7

\* Date.prototype.setDate(getDate() + 1) and setDate(getDate() - 1)
nextDay(date) ==
    IF date.d < DaysInMonth(date.y, date.m) THEN [date EXCEPT !.d = @ + 1]
    ELSE IF date.m < 12 THEN [y |-> date.y, m |-> date.m + 1, d |-> 1]
    ELSE [y |-> date.y + 1, m |-> 1, d |-> 1]

prevDay(date) ==
    IF date.d > 1 THEN [date EXCEPT !.d = @ - 1]
    ELSE IF date.m > 1 THEN [y |-> date.y, m |-> date.m - 1, d |-> DaysInMonth(date.y, date.m - 1)]
    ELSE [y |-> date.y - 1, m |-> 12, d |-> 31]

\* date-fns addDays(date, amount)
RECURSIVE addDays(_, _)
addDays(date, amount) ==
    IF amount = 0 THEN date
    ELSE IF amount > 0 THEN addDays(nextDay(date), amount - 1)
    ELSE addDays(prevDay(date), amount + 1)

\* date-fns addMonths(date, amount): the day is kept, or is the last day of
\* the month reached when that month is shorter
addMonths(date, amount) ==
    LET total == date.y * 12 + (date.m - 1) + amount
        yy    == total \div 12
        mm    == (total % 12) + 1
    IN  [y |-> yy, m |-> mm, d |-> Min(date.d, DaysInMonth(yy, mm))]

subMonths(date, amount) == addMonths(date, -amount)

endOfMonth(date) == [date EXCEPT !.d = DaysInMonth(date.y, date.m)]

\* date-fns startOfWeek / endOfWeek with { weekStartsOn }
startOfWeek(date, weekStartsOn) ==
    LET day  == getDay(date)
        diff == (IF day < weekStartsOn THEN 7 ELSE 0) + day - weekStartsOn
    IN  addDays(date, -diff)

endOfWeek(date, weekStartsOn) ==
    LET day  == getDay(date)
        diff == (IF day < weekStartsOn THEN -7 ELSE 0) + 6 - (day - weekStartsOn)
    IN  addDays(date, diff)

\* d <= end for two Dates
DateLeq(a, b) ==
    \/ a.y < b.y
    \/ a.y = b.y /\ a.m < b.m
    \/ a.y = b.y /\ a.m = b.m /\ a.d <= b.d

\* for (let d = start; d <= end; d = addDays(d, 1)) arr.push(d)
RECURSIVE DaysFrom(_, _, _)
DaysFrom(d, end, arr) ==
    IF DateLeq(d, end) THEN DaysFrom(addDays(d, 1), end, Append(arr, d)) ELSE arr

\* the day grid with weeks that start on Monday
daysWeekStartsOnMonday ==
    LET start == startOfWeek(startOfMonth(current), 1)
        end   == endOfWeek(endOfMonth(current), 1)
    IN  DaysFrom(start, end, <<>>)

\* const days = useMemo(...)
days ==
    LET start == startOfWeek(startOfMonth(current), 0)
        end   == endOfWeek(endOfMonth(current), 0)
    IN  DaysFrom(start, end, <<>>)

\* how many months current is from the month the calendar opened on
MonthsAway == (current.y * 12 + current.m) - (today.y * 12 + today.m)

\* the Previous month button: setCurrent(d => subMonths(d, 1))
previousMonth ==
    /\ activeRoute.key = "earnings"
    /\ MonthsAway > -MaxMonthsAway
    /\ current' = subMonths(current, 1)
    /\ UNCHANGED <<ctxCompanies, pathname, today, labVars, cfgVars>>
    /\ UNCHANGED <<selVars, wizVars>>

\* the Next month button: setCurrent(d => addMonths(d, 1))
nextMonth ==
    /\ activeRoute.key = "earnings"
    /\ MonthsAway < MaxMonthsAway
    /\ current' = addMonths(current, 1)
    /\ UNCHANGED <<ctxCompanies, pathname, today, labVars, cfgVars>>
    /\ UNCHANGED <<selVars, wizVars>>

\* the page is opened on "/", in any month of CalendarYear
InitAppPage ==
    /\ InitSelector
    /\ InitWizard
    /\ ctxCompanies = <<>>
    /\ InitLab
    /\ InitConfig
    /\ pathname = PathAdvisor
    /\ today \in {[y |-> CalendarYear, m |-> m, d |-> d] :
                     m \in 1..12, d \in {1, 28}}
    /\ current = startOfMonth(today)

NextApp ==
    \/ \E i \in DOMAIN NAV : push(NAV[i].href)
    \/ previousMonth
    \/ nextMonth

SpecApp == InitAppPage /\ [][NextApp]_vars

\* C12: for every pathname the Header navigation can push, App renders
\* SkylineFooter if and only if the pathname is the Advisor route "/".
C12_FooterOnlyOnAdvisor ==
    pathname \in NavHrefs => (SkylineFooterRendered <=> pathname = PathAdvisor)

(***************************************************************************)
(* LearnHub: the CompoundingLab and simulateSeries.                        *)
(*                                                                         *)
(* A JavaScript number is a record: finite says whether it is a finite     *)
(* double, v is its value. The plans drawn below are those on which the    *)
(* double arithmetic of simulateSeries is exact, so v is an integer:       *)
(* money and percentages in units, a number of years in eighths of a year  *)
(* (the Years field accepts fractions, which the handler rounds).          *)
(***************************************************************************)
NaN == [finite |-> FALSE, v |-> 0]

Num(n) == [finite |-> TRUE, v |-> n]

\* clampNum = (x, fb = 0) => (Number.isFinite(x) ? x : fb)
clampNum(x, fb) == IF x.finite THEN x.v ELSE fb

\* e.target.value of a number input: the empty string or a numeral
EMPTY == [empty |-> TRUE, v |-> 0]

Text(n) == [empty |-> FALSE, v |-> n]

parseFloat(text) == IF text.empty THEN NaN ELSE Num(text.v)

InitialTexts == {EMPTY, Text(100)}

MonthlyTexts == {EMPTY, Text(8), Text(16)}

\* in eighths of a year: "", "1", "1.5", "2.5", "3"
YearsTexts == {EMPTY, Text(8), Text(12), Text(20), Text(24)}

CagrTexts == {EMPTY, Text(0), Text(-100)}

BumpTexts == {EMPTY, Text(50), Text(100)}

\* Math.round of a number of eighths, as a whole number
MathRound(eighths) == (eighths + 4) \div 8

\* the CompoundingLab is rendered by the LearnHub page
LabShown == activeRoute.key = "learn"

UnchangedByLab ==
    /\ UNCHANGED <<ctxCompanies, pathname, today, current, cfgVars>>
    /\ UNCHANGED <<selVars, wizVars>>

\* <NumberField label="Initial lump sum" onChange={setInitial} />
setInitial(text) ==
    /\ LabShown
    /\ initial' = clampNum(parseFloat(text), 0)
    /\ UNCHANGED <<monthly, years, cagrPct, contribBump>>
    /\ UnchangedByLab

\* <NumberField label="Monthly contribution" onChange={setMonthly} />
setMonthly(text) ==
    /\ LabShown
    /\ monthly' = clampNum(parseFloat(text), 0)
    /\ UNCHANGED <<initial, years, cagrPct, contribBump>>
    /\ UnchangedByLab

\* <NumberField label="Years" onChange={(v)=>setYears(Math.max(1, Math.round(v)))} />
setYears(text) ==
    /\ LabShown
    /\ years' = Max(1, MathRound(clampNum(parseFloat(text), 0)))
    /\ UNCHANGED <<initial, monthly, cagrPct, contribBump>>
    /\ UnchangedByLab

\* <NumberField label="Expected CAGR" onChange={setCagrPct} />
setCagrPct(text) ==
    /\ LabShown
    /\ cagrPct' = clampNum(parseFloat(text), 0)
    /\ UNCHANGED <<initial, monthly, years, contribBump>>
    /\ UnchangedByLab

\* <NumberField label="Annual raise on monthly" onChange={setContribBump} />
setContribBump(text) ==
    /\ LabShown
    /\ contribBump' = clampNum(parseFloat(text), 0)
    /\ UNCHANGED <<initial, monthly, years, cagrPct>>
    /\ UnchangedByLab

\* 1 + r with r = Math.pow(1 + cagrPct/100, 1/12) - 1, on the two rates
\* whose twelfth root is exact: pow(1, 1/12) = 1 and pow(0, 1/12) = 0
onePlusR(cagr) ==
    CASE cagr = 0 -> 1
      [] cagr = -100 -> 0

\* m * (1 + contribBump/100)
raised(m, bump) == (m * (100 + bump)) \div 100

\* a body of the loop that raises the contribution in month 0 as well
simStepRaisesAtStart(i, st, factor, bump) ==
    LET value1 == IF i > 0 THEN st.value * factor + st.m ELSE st.value
        contrib1 == IF i > 0 THEN st.contrib + st.m ELSE st.contrib
        m1 == IF i % 12 = 0 THEN raised(st.m, bump) ELSE st.m
    IN  [value |-> value1, contrib |-> contrib1, m |-> m1,
         data |-> Append(st.data, [m |-> i, value |-> value1, contrib |-> contrib1])]

\* the body of the loop of simulateSeries
simStep(i, st, factor, bump) ==
    LET value1 == IF i > 0 THEN st.value * factor + st.m ELSE st.value
        contrib1 == IF i > 0 THEN st.contrib + st.m ELSE st.contrib
        m1 == IF i > 0 /\ i % 12 = 0 THEN raised(st.m, bump) ELSE st.m
    IN  [value |-> value1, contrib |-> contrib1, m |-> m1,
         data |-> Append(st.data, [m |-> i, value |-> value1, contrib |-> contrib1])]

\* for (let i=0; i<=months; i++) { ... }; data holds i + 1 points after
\* iteration i, and testing it evaluates each iteration before the next
RECURSIVE simLoop(_, _, _, _, _)
simLoop(i, months, st, factor, bump) ==
    IF i <= months
    THEN LET after == simStep(i, st, factor, bump)
         IN  IF Len(after.data) = i + 1
             THEN simLoop(i + 1, months, after, factor, bump)
             ELSE after
    ELSE st

\* simulateSeries(years, cagrPct, initial, monthly, contribBump); the
\* argument yearsN counts eighths of a year
simulateSeries(yearsN, cagrPctN, initialN, monthlyN, contribBumpN) ==
    LET months == Max(1, (clampNum(yearsN, 8) * 12) \div 8)
        factor == onePlusR(clampNum(cagrPctN, 0))
        st0 == [value |-> clampNum(initialN, 0),
                contrib |-> clampNum(initialN, 0),
                m |-> clampNum(monthlyN, 0),
                data |-> <<>>]
        end == simLoop(0, months, st0, factor, clampNum(contribBumpN, 0))
    IN  [data |-> end.data, final |-> end.value, invested |-> end.contrib,
         growth |-> end.value - end.contrib]

\* const sim = useMemo(() => simulateSeries(years, cagrPct, initial, monthly,
\* contribBump), ...)
sim == simulateSeries(Num(8 * years), Num(cagrPct), Num(initial), Num(monthly),
                      Num(contribBump))

\* the LearnHub page with a plan typed into the fields of the lab
InitLabPage ==
    /\ InitSelector
    /\ InitWizard
    /\ ctxCompanies = <<>>
    /\ InitConfig
    /\ pathname = PathLearn
    /\ today = [y |-> CalendarYear, m |-> 1, d |-> 1]
    /\ current = today
    /\ initial \in {clampNum(parseFloat(t), 0) : t \in InitialTexts}
    /\ monthly \in {clampNum(parseFloat(t), 0) : t \in MonthlyTexts}
    /\ years \in {Max(1, MathRound(clampNum(parseFloat(t), 0))) : t \in YearsTexts}
    /\ cagrPct \in {clampNum(parseFloat(t), 0) : t \in CagrTexts}
    /\ contribBump \in {clampNum(parseFloat(t), 0) : t \in BumpTexts}

NextLab ==
    \/ \E t \in InitialTexts : setInitial(t)
    \/ \E t \in MonthlyTexts : setMonthly(t)
    \/ \E t \in YearsTexts : setYears(t)
    \/ \E t \in CagrTexts : setCagrPct(t)
    \/ \E t \in BumpTexts : setContribBump(t)

SpecLab == InitLabPage /\ [][NextLab]_vars

\* the numbers of years the calculator is asked about: the plan's and two
\* fractional ones around it, in eighths of a year
YearsAsked == {8 * years - 5, 8 * years, 8 * years + 3}

RECURSIVE Power(_, _)
Power(b, e) == IF e = 0 THEN 1 ELSE b * Power(b, e - 1)

\* the contribution of month i >= 1: the monthly amount, raised once for
\* every full 12 months before month i
ContributionOfMonth(i) ==
    LET k == (i - 1) \div 12
    IN  (monthly * Power(100 + contribBump, k)) \div Power(100, k)

RECURSIVE SumOfContributions(_)
SumOfContributions(n) ==
    IF n = 0 THEN 0 ELSE SumOfContributions(n - 1) + ContributionOfMonth(n)

\* n is max(1, floor(y * 12)) for y = eighths / 8
IsMonthsOf(n, eighths) ==
    IF eighths * 12 < 16
    THEN n = 1
    ELSE n * 8 <= eighths * 12 /\ eighths * 12 < (n + 1) * 8

\* C13: simulateSeries compounds monthly, adds the monthly contribution every
\* month and raises it after every 12th month: it returns months+1 points
\* with months = max(1, floor(years*12)); invested is the initial sum plus
\* all contributions made; growth is final - invested; at 0% CAGR the value
\* equals the invested amount at every month.
C13_SimulateSeries ==
    \A y \in YearsAsked :
        LET s == simulateSeries(Num(y), Num(cagrPct), Num(initial),
                                Num(monthly), Num(contribBump))
            n == Len(s.data) - 1
        IN  /\ IsMonthsOf(n, y)
            /\ \A i \in 0..n : s.data[i + 1].m = i
            /\ s.data[1].value = initial /\ s.data[1].contrib = initial
            /\ \A i \in 1..n :
                  /\ s.data[i + 1].value =
                        s.data[i].value * onePlusR(cagrPct) + ContributionOfMonth(i)
                  /\ s.data[i + 1].contrib = initial + SumOfContributions(i)
            /\ s.final = s.data[n + 1].value
            /\ s.invested = initial + SumOfContributions(n)
            /\ s.growth = s.final - s.invested
            /\ cagrPct = 0 => \A i \in 0..n : s.data[i + 1].value = s.data[i + 1].contrib

\* a two-year plan with a raise: 12 contributions of 8, then 12 of 12
C13_Witness ==
    /\ years = 2 /\ monthly = 8 /\ contribBump = 50 /\ cagrPct = 0 /\ initial = 100
    /\ Len(sim.data) = 25
    /\ sim.invested = 100 + 12 * 8 + 12 * 12
    /\ sim.final = sim.invested

(***************************************************************************)
(* config: getApiBaseUrl, API_BASE_URL, and the URLs the components pass   *)
(* to fetch. A request is recorded by the function that issues it, the     *)
(* base its URL starts with, and its path.                                 *)
(***************************************************************************)
Envs == [DEV : BOOLEAN, VITE_API_URL : {UNDEFINED, "", DeployedUrl}]

\* any build of either config module, its module not yet evaluated
InitConfigBuild ==
    /\ InitSelector
    /\ InitWizard
    /\ ctxCompanies = <<>>
    /\ pathname = PathAdvisor
    /\ today = [y |-> CalendarYear, m |-> 1, d |-> 1]
    /\ current = today
    /\ InitLab
    /\ env \in Envs
    /\ configFile \in ConfigFiles
    /\ API_BASE_URL = NULL
    /\ issued = {}

UnchangedByConfig ==
    /\ UNCHANGED <<ctxCompanies, pathname, today, current, labVars>>
    /\ UNCHANGED <<selVars, wizVars>>

\* export const API_BASE_URL = getApiBaseUrl();
loadConfig ==
    /\ API_BASE_URL = NULL
    /\ API_BASE_URL' = getApiBaseUrl(configFile, env)
    /\ UNCHANGED <<env, configFile, issued>>
    /\ UnchangedByConfig

\* fetch(url) issued by a component of the loaded bundle
fetch(by, base, path) ==
    /\ API_BASE_URL # NULL
    /\ issued' = issued \cup {[by |-> by, base |-> base, path |-> path]}
    /\ UNCHANGED <<env, configFile, API_BASE_URL>>
    /\ UnchangedByConfig

\* SectorCompanySelector.fetchSectors: fetch('http://127.0.0.1:5001/api/ai/sectors')
fetchSectorsRequest ==
    fetch("fetchSectors", "http://127.0.0.1:5001", "/api/ai/sectors")

\* SectorCompanySelector.fetchCompanies:
\* fetch('http://127.0.0.1:5001/api/companies/dynamic', ...)
fetchCompaniesRequest ==
    fetch("fetchCompanies", "http://127.0.0.1:5001", "/api/companies/dynamic")

\* SectorCompanySelector.fetchCompanies, the fallback in its catch block
fetchCompaniesFallbackRequest ==
    fetch("fetchCompanies fallback", "http://127.0.0.1:5001", "/api/companies/dynamic")

\* EarningsCalendar: fetch(`/api/earnings?month=${ym}`)
fetchEarningsRequest ==
    fetch("EarningsCalendar", PageOrigin, "/api/earnings")

\* SmartWealthNeonWizard.submit: fetch('/api/recommend', ...)
fetchRecommendRequest ==
    fetch("submit", PageOrigin, "/api/recommend")

\* StockScoring: fetch('/api/score-stocks', ...)
fetchScoreStocksRequest ==
    fetch("StockScoring", PageOrigin, "/api/score-stocks")

\* the weekly earnings page: fetch(`${API_BASE_URL}/api/earnings_week?...`)
fetchEarningsWeekRequest ==
    fetch("EarningsWeek", API_BASE_URL, "/api/earnings_week")

\* the weekly earnings page: fetch(`${API_BASE_URL}/api/earnings_detail?...`)
fetchEarningsDetailRequest ==
    fetch("EarningsDetail", API_BASE_URL, "/api/earnings_detail")

NextConfig ==
    \/ loadConfig
    \/ fetchSectorsRequest
    \/ fetchCompaniesRequest
    \/ fetchCompaniesFallbackRequest
    \/ fetchEarningsRequest
    \/ fetchRecommendRequest
    \/ fetchScoreStocksRequest
    \/ fetchEarningsWeekRequest
    \/ fetchEarningsDetailRequest

SpecConfig == InitConfigBuild /\ [][NextConfig]_vars

\* C14: getApiBaseUrl returns the localhost development URL when
\* import.meta.env.DEV is true, and in a production build returns the value
\* of the VITE_API_URL environment variable.
C14_ApiBaseUrlFromEnvironment ==
    API_BASE_URL # NULL
        => API_BASE_URL = IF env.DEV THEN LocalDevUrl ELSE env.VITE_API_URL

\* C15: every request a component issues to the backend is addressed to
\* API_BASE_URL, so none goes to a hard-coded host, in development or in
\* production.
C15_RequestsUseApiBaseUrl ==
    \A q \in issued : q.base = API_BASE_URL

(***************************************************************************)
(* The wizard's Results step against the validation of the earlier steps.  *)
(***************************************************************************)
\* the validation of steps 1..5 on the current answers
AllStepsValid ==
    /\ \E i \in 1..Len(name) : name[i] # " "
    /\ age \notin {"", "0", "-1"}
    /\ horizon # "" /\ risk # ""
    /\ wSectors # <<>>
    /\ subSectors # <<>>
    /\ goalReturn # "" \/ monthlyContribution # "" \/ capital # ""

\* C16: whenever the wizard shows the Results step (step 6), the validation of
\* every earlier step holds for the current answers, for every interleaving
\* of Back/Next clicks, answer edits and the arrival of the /api/recommend
\* response.
C16_ResultsImplyValidAnswers ==
    step = 6 => AllStepsValid

(***************************************************************************)
(* The loading flag against the company requests in flight.                *)
(***************************************************************************)
\* a call of fetchCompanies that has not ended yet
InFlight(r) == reqs[r].phase \in {"fetch", "stream", "fallback"}

\* C17: loading is true exactly while a company request started by
\* fetchCompanies is still in flight: it is false after every request has
\* ended and never false while some request is still in flight, for every
\* interleaving of Back, sector toggles and Next with the stream events.
C17_LoadingWhileInFlight ==
    loading <=> \E r \in ReqIds : InFlight(r)

(***************************************************************************)
(* Malformed lines of the company stream.                                  *)
(***************************************************************************)
\* a 'data: ' line on which JSON.parse throws
IsMalformedLine(line) == IsDataLine(line) /\ ~JSONparse(slice6(line)).ok

RECURSIVE WithoutMalformed(_)
WithoutMalformed(lines) ==
    IF lines = <<>> THEN <<>>
    ELSE IF IsMalformedLine(Head(lines)) THEN WithoutMalformed(Tail(lines))
    ELSE <<Head(lines)>> \o WithoutMalformed(Tail(lines))

\* the complete lines the read loop finds when it reads n tokens of request r
LinesRead(r, n) ==
    LET lines == split(reqs[r].buffer \o decode(SubSeq(reqs[r].inflight, 1, n)))
    IN  SubSeq(lines, 1, Len(lines) - 1)

\* what the component shows before a chunk is processed
Shown ==
    [companies |-> companies, loading |-> loading, error |-> error,
     appended |-> <<>>, returned |-> FALSE, how |-> ""]

\* C18: a malformed line in the company stream does not abort loading: the
\* line is skipped, companies, error and loading are left unchanged by it,
\* and every later valid line of the stream is still processed: a read has
\* the effect of the same read without the malformed lines.
C18_MalformedLineSkipped ==
    \A r \in ReqIds :
        reqs[r].phase = "stream" =>
            \A n \in 1..Len(reqs[r].inflight) :
                /\ \A i \in 1..Len(LinesRead(r, n)) :
                      IsMalformedLine(LinesRead(r, n)[i])
                          => ProcessLine(LinesRead(r, n)[i], Shown) = Shown
                /\ ChunkResult(r, n).st
                      = ProcessLines(WithoutMalformed(LinesRead(r, n)), Shown)

\* a read that finds a malformed line followed by a progress line, whose
\* company is appended
C18_Witness ==
    \E r \in ReqIds :
        /\ reqs[r].phase = "stream"
        /\ \E n \in 1..Len(reqs[r].inflight) :
              /\ Len(LinesRead(r, n)) = 2
              /\ IsMalformedLine(LinesRead(r, n)[1])
              /\ ChunkResult(r, n).st.appended # <<>>

(***************************************************************************)
(* The day grid of the EarningsCalendar.                                   *)
(***************************************************************************)
\* Zeller's congruence for the Gregorian calendar: 0 is Saturday, 1 is Sunday
Zeller(date) ==
    LET mm == IF date.m <= 2 THEN date.m + 12 ELSE date.m
        yy == IF date.m <= 2 THEN date.y - 1 ELSE date.y
        kk == yy % 100
        jj == yy \div 100
    IN  (date.d + (13 * (mm + 1)) \div 5 + kk + kk \div 4 + jj \div 4 + 5 * jj) % 7

\* the number of the month a date lies in, counted from year 0
MonthNumber(date) == date.y * 12 + date.m

GridIsWellFormed(grid) ==
    /\ Len(grid) > 0
    /\ Len(grid) % 7 = 0
    /\ Zeller(grid[1]) = 1
    /\ Zeller(grid[Len(grid)]) = 0
    /\ \A i \in 1..(Len(grid) - 1) :
          /\ EpochDay(grid[i + 1]) = EpochDay(grid[i]) + 1
          /\ Zeller(grid[i + 1]) = (Zeller(grid[i]) + 1) % 7
    /\ \A d \in 1..DaysInMonth(current.y, current.m) :
          \E i \in 1..Len(grid) : grid[i] = [y |-> current.y, m |-> current.m, d |-> d]

\* C19: for every displayed month the day grid is a run of consecutive days
\* that starts on a Sunday, ends on a Saturday, has a length that is a
\* multiple of 7 and contains every day of that month; previous/next
\* navigation moves the displayed month by exactly one month and the two are
\* inverse to each other.
C19_CalendarGrid ==
    /\ [](GridIsWellFormed(days))
    /\ [](/\ addMonths(subMonths(current, 1), 1) = current
          /\ subMonths(addMonths(current, 1), 1) = current)
    /\ [][(current' # current /\ pathname' = pathname)
            => /\ MonthNumber(current') - MonthNumber(current) \in {-1, 1}
               /\ current'.d = 1]_vars

\* December of the year before, reached by Previous month across the year
\* boundary: a grid of six weeks that begins in November
C19_Witness ==
    /\ activeRoute.key = "earnings"
    /\ current = [y |-> CalendarYear - 1, m |-> 12, d |-> 1]
    /\ Len(days) = 42
    /\ days[1].m = 11
    /\ days[42].y = CalendarYear

====
